---- MODULE Spec2Model ----
(***************************************************************************)
(* Council session orchestration engine (SessionOrchestrator).             *)
(*                                                                         *)
(* One orchestrator instance drives one Session: run_session (forward run) *)
(* or run_session_with_resume (resumed run).  Both are async generators;   *)
(* every action below is one stretch of generator code between two         *)
(* suspension points, or the completion of one provider call.              *)
(*                                                                         *)
(* Persistence (db.add / commit / refresh) is taken to succeed.  Provider  *)
(* calls succeed or fail nondeterministically.                             *)
(***************************************************************************)
EXTENDS Integers, Sequences, FiniteSets, TLC

\* ---------------------------------------------------------------- bounds
MaxMembers == 2
MaxIterations == 2
\* council calls one forward run may issue (members x iterations)
MaxCouncilCalls == 6

\* iterations of the always-failing-member scenario
ScenarioBIterations == 3

\* fragments one provider stream yields at most
MaxFragments == 2
MaxStreamCalls == 2
LongRunIterations == 3

\* roster size and interrupted iteration of the one-missing-member resume scenario
ScenarioDMembers == 3
ScenarioDIteration == 2

\* ------------------------------------------------------------ vocabulary
MemberIdPool == <<"m1", "m2", "m3", "m4", "m5", "m6", "m7", "m8", "m9", "m10", "m11">>
ProviderNames == {"ollama", "openai"}

\* model names a member may ask for
ModelNames == {"llama3", "llava", "gpt-4o"}

\* keys of PERSONALITY_ARCHETYPES
PERSONALITY_ARCHETYPES ==
    {"balanced", "optimist", "critic", "pragmatist", "creative", "analyst", "devil_advocate",
     "synthesizer", "ethicist", "strategist", "minimalist", "maximalist", "technical",
     "user_advocate", "researcher"}

VARIABLES
    config,            \* the SessionCreate request the session was created from
    council_members,   \* self.council_members: the roster, a sequence of CouncilMember
    total_iterations,  \* session.total_iterations
    openai_api_key,    \* settings.openai_api_key is set
    mode,              \* "run" = run_session, "resume" = run_session_with_resume
    resume_state,      \* [current_iteration, responses, merged_responses]
    status,            \* session.status
    pc,                \* position of the generator
    iteration,         \* iteration the generator is working on
    inflight,          \* member ids whose provider call is running
    completed,         \* finished member calls not yet taken by as_completed
    chair_inflight,    \* the chair's merge call is running
    phase_responses,   \* initial_responses / feedback_responses (member ids)
    merged_response,   \* iteration of the merge held in merged_response, 0 = None
    responses,         \* the persisted Response rows, in commit order
    events,            \* the events yielded so far
    call_log,          \* provider calls issued so far
    fail_log,          \* provider calls that raised
    completion_log,    \* provider calls in the order they ended
    provider_model,    \* provider.model of each provider instance of the factory
    original_model,    \* original_model saved by a member's running call, "" = none
    model_log,         \* the reads of provider.model and the ends of the member calls
    session_id,        \* session.id of the Session the orchestrator runs, "" = none
    session_current_iteration,  \* session.current_iteration of that Session
    db_sessions        \* the Session rows that were in the database before the request

request_vars == <<config, council_members, total_iterations, openai_api_key, mode, resume_state>>
provider_vars == <<provider_model, original_model, model_log>>
session_vars == <<session_id, session_current_iteration, db_sessions>>
\* what the steps of the generators leave alone
config_vars == <<request_vars, provider_vars, session_vars>>
run_vars == <<status, pc, iteration, inflight, completed, chair_inflight,
              phase_responses, merged_response, responses, events, call_log, fail_log,
              completion_log>>
vars == <<config_vars, run_vars>>

\* ------------------------------------------------------------- helpers
Range(s) == {s[i] : i \in 1..Len(s)}

Last(s) == s[Len(s)]

SeqMap(Op(_), s) == [i \in 1..Len(s) |-> Op(s[i])]

RECURSIVE SelectIds(_, _)
SelectIds(s, keep) ==
    IF s = <<>> THEN <<>>
    ELSE (IF Head(s).id \in keep THEN <<Head(s).id>> ELSE <<>>) \o SelectIds(Tail(s), keep)

MemberIdsOf(members) == {members[i].id : i \in 1..Len(members)}

\* next(m for m in council_members if m.is_chair)
ChairMember == CHOOSE m \in Range(council_members) : m.is_chair

ChairProvider == ChairMember.provider

MemberById(id) == CHOOSE m \in Range(council_members) : m.id = id

\* ProviderFactory._initialize_providers: ollama always, openai with a key
ConfiguredProviders == IF openai_api_key THEN {"ollama", "openai"} ELSE {"ollama"}

\* ProviderFactory.get_provider raises ValueError for an unconfigured name
GetProviderRaises(name) == name \notin ConfiguredProviders

\* PROVIDER_CONFIGS[name]["default_model"]
get_default_model(name) == "default"

\* model_configs[member.provider] = member.model, in roster order: the model
\* each provider instance is constructed with
model_configs(roster) ==
    [name \in ProviderNames |->
        LET named == {i \in 1..Len(roster) : roster[i].provider = name}
        IN IF named = {} THEN get_default_model(name)
           ELSE roster[CHOOSE i \in named : \A j \in named : j <= i].model]

\* the provider instances after create_session, with no call running
InitProviders ==
    /\ provider_model = model_configs(council_members)
    /\ original_model = [id \in Range(MemberIdPool) |-> ""]
    /\ model_log = <<>>

Mut_NewSessionId == "s_old"

\* id = Column(String, default=uuid4): an id no Session row has yet
NewSessionId == "s_new"

\* the Session row of the run that a resume request continues
InterruptedSession(session_status) ==
    [id |-> "s_old", status |-> session_status,
     responses |-> [i \in 1..Len(resume_state.responses) |->
                       [member |-> resume_state.responses[i].member_id,
                        iteration |-> resume_state.responses[i].iteration]]]

\* the Session added by create_session; the interrupted run's row is in the
\* database when the request came through the resume route
InitSession ==
    /\ session_id = NewSessionId
    /\ session_current_iteration = 0
    /\ db_sessions = IF mode = "resume" THEN {InterruptedSession("running")} ELSE {}

\* -------------------------------------------------------- text values
\* A text is a sequence of parts: literal wording of the code, single
\* characters of user input, or the content of a value named by the code.
Part(kind, text, member_id, iter) ==
    [kind |-> kind, text |-> text, member |-> member_id, iteration |-> iter]

Text(t) == Part("text", t, "", 0)

Char(c) == Part("char", c, "", 0)

Whitespace == {Char(" "), Char("\n")}

\* session.prompt
SessionPrompt == Part("session.prompt", "", "", 0)

\* the content of the merge of iteration k
MergeContent(k) == Part("merge.content", "", "", k)

\* the content of member id's response of iteration k
ResponseContent(id, k) == Part("response.content", "", id, k)

\* the names of the merge template store
MERGE_TEMPLATES == {"analytical", "creative", "technical", "balanced"}

\* MERGE_TEMPLATES.get(merge_template, MERGE_TEMPLATES["balanced"])
MergeTemplateText(merge_template) ==
    Part("merge_template", IF merge_template \in MERGE_TEMPLATES THEN merge_template ELSE "balanced",
         "", 0)

\* PERSONALITY_ARCHETYPES[a]["system_prompt"]
ArchetypeSystemPrompt(a) == Part("archetype.system_prompt", a, "", 0)

\* files[i].extracted_text under its "=== File: ... ===" heading
FileText(i) == Part("file.extracted_text", "", "", i)

RECURSIVE LStrip(_)
LStrip(s) == IF s # <<>> /\ Head(s) \in Whitespace THEN LStrip(Tail(s)) ELSE s

RECURSIVE RStrip(_)
RStrip(s) ==
    IF s # <<>> /\ s[Len(s)] \in Whitespace THEN RStrip(SubSeq(s, 1, Len(s) - 1)) ELSE s

\* str.strip()
Strip(s) == RStrip(LStrip(s))

Mut_get_archetype_system_prompt(archetype_id, custom_personality) ==
    IF Strip(custom_personality) # <<>>
    THEN Strip(custom_personality)
    ELSE <<ArchetypeSystemPrompt(IF archetype_id \in PERSONALITY_ARCHETYPES
                                 THEN archetype_id ELSE "balanced")>>

\* custom_personality None and "" are both the empty sequence
get_archetype_system_prompt(archetype_id, custom_personality) ==
    LET base_prompt == <<ArchetypeSystemPrompt(IF archetype_id \in PERSONALITY_ARCHETYPES
                                               THEN archetype_id ELSE "balanced")>>
    IN IF custom_personality # <<>> /\ Strip(custom_personality) # <<>>
       THEN base_prompt \o <<Text("\n\nAdditional personality guidance: ")>>
                        \o Strip(custom_personality)
       ELSE base_prompt

\* self.member_personalities, filled by create_session
member_personalities ==
    [id \in MemberIdsOf(council_members) |->
        get_archetype_system_prompt(MemberById(id).archetype, MemberById(id).custom_personality)]

\* OllamaProvider.supports_vision / OpenAIProvider.supports_vision
supports_vision(provider, model) ==
    \/ provider = "ollama" /\ model \in {"llava"}
    \/ provider = "openai" /\ model \in {"gpt-4o"}

RECURSIVE FirstImage(_)
FirstImage(files) ==
    IF files = <<>> THEN ""
    ELSE IF Head(files).base64_data # "" THEN Head(files).base64_data
    ELSE FirstImage(Tail(files))

\* self.image_data after create_session ("" = None)
image_data == FirstImage(config.files)

\* self.file_context after create_session
file_context ==
    LET withText == SelectSeq([i \in 1..Len(config.files) |-> i],
                              LAMBDA i : config.files[i].extracted_text)
    IN SeqMap(FileText, withText)

Mut_ImageToSend(member) == image_data

\* image_to_send in _get_provider_response
ImageToSend(member) ==
    IF image_data # "" /\ supports_vision(member.provider, member.model) THEN image_data ELSE ""

\* full_prompt in _get_provider_response
FullPrompt(prompt) == IF file_context # <<>> THEN file_context \o prompt ELSE prompt

\* feedback_prompt of _collect_feedback
FeedbackPrompt(prev) ==
    <<Text("Please review and critique the following merged response:"),
      MergeContent(prev),
      Text("Original prompt was: "),
      SessionPrompt,
      Text("Provide constructive feedback on: 1. 2. 3. 4.")>>

\* feedback_prompt of _collect_feedback_from_members
FeedbackPromptFromMembers(prev, iter) ==
    <<Text("Original prompt: "),
      SessionPrompt,
      Part("text", "Previous output (iteration ):", "", iter - 1),
      MergeContent(prev),
      Text("Please provide constructive feedback on this output.")>>

\* responses_text of _create_merge
ResponsesText(inputs, iter) == SeqMap(LAMBDA id : ResponseContent(id, iter), inputs)

\* merge_prompt of _create_merge
MergePrompt(inputs, iter, previous_merge) ==
    IF iter = 1
    THEN <<Text("As the chair of this council, synthesize these council member responses"),
           Text("Original prompt: "),
           SessionPrompt,
           Text("Council responses:")>>
         \o ResponsesText(inputs, iter)
         \o <<Text("Your task:")>>
    ELSE <<Text("As the chair, you must now produce the ACTUAL IMPROVED VERSION"),
           Text("Original prompt: "),
           SessionPrompt,
           Part("text", "Previous version (iteration ):", "", iter - 1),
           IF previous_merge = 0 THEN Text("No previous version available")
                                 ELSE MergeContent(previous_merge),
           Text("Council feedback:")>>
         \o ResponsesText(inputs, iter)
         \o <<Text("CRITICAL INSTRUCTIONS:")>>

\* ------------------------------------------------------------- events
Event(type, provider, member_id, iter, done, message) ==
    [type |-> type, provider |-> provider, member_id |-> member_id,
     iteration |-> iter, done |-> done, message |-> message]

StatusEvent == Event("status", "", "", 0, FALSE, "status")

ResponseRow(role, provider, member_id, iter, content) ==
    [role |-> role, provider |-> provider, member |-> member_id, iteration |-> iter,
     content |-> content]

\* ------------------------------------------------------ provider streams
\* the i-th fragment a provider yields: a short run of characters
Fragment(i) == IF i % 2 = 1 THEN <<"a", "b">> ELSE <<"c">>

\* A stream yields its fragments in order and then ends or raises.
Stream(n, raises) == [fragments |-> [i \in 1..n |-> Fragment(i)], raises |-> raises]

Streams == {Stream(n, raises) : n \in 0..MaxFragments, raises \in BOOLEAN}

\* async for chunk in provider.stream_completion(...): content += chunk
RECURSIVE Drain(_, _)
Drain(fragments, content) ==
    IF fragments = <<>> THEN content
    ELSE Drain(Tail(fragments), content \o Head(fragments))

Mut_get_provider_response(stream) ==
    [ok |-> TRUE, content |-> Drain(stream.fragments, <<>>)]

\* _get_provider_response: the content once the stream is drained; an
\* exception of the stream leaves the function and the content is lost
get_provider_response(stream) ==
    IF stream.raises THEN [ok |-> FALSE, content |-> <<>>]
    ELSE [ok |-> TRUE, content |-> Drain(stream.fragments, <<>>)]

\* One provider call: who is called, for which iteration, the responses put in
\* the prompt (chair only), the merge the prompt quotes (0 = none), and the
\* arguments of stream_completion
Call(role, member_id, iter, inputs, prev, prompt) ==
    [role |-> role, member |-> member_id, iteration |-> iter, inputs |-> inputs, prev |-> prev,
     prompt |-> FullPrompt(prompt),
     system_prompt |-> member_personalities[member_id],
     image_data |-> ImageToSend(MemberById(member_id))]

\* ------------------------------------------------------------- Init
\* CouncilMember; archetype defaults to "balanced", custom_personality to None
CouncilMember(id, provider, model, archetype, custom_personality, is_chair) ==
    [id |-> id, provider |-> provider, model |-> model, archetype |-> archetype,
     custom_personality |-> custom_personality, is_chair |-> is_chair]

RostersOfSize(n) ==
    { [i \in 1..n |-> CouncilMember(MemberIdPool[i], prov[i], "llama3", "balanced", <<>>, i = c)]
      : c \in 1..n, prov \in [1..n -> ProviderNames] }

Rosters == UNION { RostersOfSize(n) : n \in 1..MaxMembers }

RECURSIVE AscendingSeq(_, _)
AscendingSeq(S, upto) ==
    IF upto = 0 THEN <<>>
    ELSE AscendingSeq(S, upto - 1) \o (IF upto \in S THEN <<[iteration |-> upto]>> ELSE <<>>)

ResumeStates(roster, n) ==
    { [current_iteration |-> c,
       responses |-> SeqMap(LAMBDA id : [member_id |-> id, iteration |-> c], SelectIds(roster, R))
                     \o (IF c > 1
                         THEN SeqMap(LAMBDA m : [member_id |-> m.id, iteration |-> c - 1], roster)
                         ELSE <<>>),
       merged_responses |-> AscendingSeq(MS, c)]
      : c \in 1..n, R \in SUBSET MemberIdsOf(roster), MS \in SUBSET (1..n) }

NoResumeState == [current_iteration |-> 1, responses |-> <<>>, merged_responses |-> <<>>]

\* the state of a run interrupted in iteration c before any response for c
ResumeStatesAtPhaseStart(roster, n) ==
    {rs \in ResumeStates(roster, n) :
        /\ \A r \in Range(rs.responses) : r.iteration # rs.current_iteration
        /\ {m.iteration : m \in Range(rs.merged_responses)} = 1..(rs.current_iteration - 1)}

\* a SessionCreate for the given roster and iterations, everything else at
\* its default: a one-character prompt, no system prompt, no attachment
SessionCreate(roster, n) ==
    [prompt_length |-> 1, council_members |-> roster, iterations |-> n, template |-> "balanced",
     system_prompt_length |-> 0, files |-> <<>>]

Init ==
    /\ council_members \in Rosters
    /\ total_iterations \in 1..MaxIterations
    /\ Len(council_members) * total_iterations <= MaxCouncilCalls
    /\ openai_api_key \in BOOLEAN
    /\ mode \in {"run", "resume"}
    /\ resume_state \in (IF mode = "run" THEN {NoResumeState}
                         ELSE ResumeStates(council_members, total_iterations))
    /\ config = SessionCreate(council_members, total_iterations)
    /\ status = "running"
    /\ pc = "start"
    /\ iteration = 0
    /\ inflight = {}
    /\ completed = <<>>
    /\ chair_inflight = FALSE
    /\ phase_responses = <<>>
    /\ merged_response = 0
    /\ responses = <<>>
    /\ events = <<>>
    /\ call_log = <<>>
    /\ fail_log = {}
    /\ completion_log = <<>>
    /\ InitProviders
    /\ InitSession

\* ------------------------------------------------- resume-state analysis
\* run_session_with_resume, lines 191-214
current_iteration == resume_state.current_iteration

current_iter_responses ==
    SelectSeq(resume_state.responses, LAMBDA r : r.iteration = current_iteration)

current_iter_merged ==
    SelectSeq(resume_state.merged_responses, LAMBDA r : r.iteration = current_iteration)

responded_member_ids == {r.member_id : r \in Range(current_iter_responses)}

non_chair_members == SelectSeq(council_members, LAMBDA m : ~m.is_chair)

Mut_MissingMembers(members, responded) == SelectIds(members, MemberIdsOf(members))

\* [m for m in non_chair_members if m.id not in responded_member_ids]
MissingMembers(members, responded) == SelectIds(members, MemberIdsOf(members) \ responded)

missing_members == MissingMembers(non_chair_members, responded_member_ids)

ExistingMerged ==
    IF resume_state.merged_responses = <<>> THEN 0
    ELSE Last(resume_state.merged_responses).iteration

\* --------------------------------------------------- per-collector shapes
\* The four collectors persist and report a result in slightly different shapes.
Collectors == {"collect_initial", "collect_feedback",
               "collect_resume_initial", "collect_resume_feedback"}

Row(collector, id, iter, content) ==
    CASE collector = "collect_initial" ->
            ResponseRow("council", MemberById(id).provider, id, 1, content)
      [] collector = "collect_feedback" -> ResponseRow("council", id, id, iter, content)
      [] OTHER -> ResponseRow("council", MemberById(id).provider, id, iter, content)

DoneEvent(collector, id, iter) ==
    CASE collector = "collect_initial" ->
            Event("initial_response", MemberById(id).provider, id, 0, TRUE, "")
      [] collector = "collect_resume_initial" ->
            Event("initial_response", MemberById(id).provider, id, iter, TRUE, "")
      [] collector = "collect_feedback" ->
            Event("feedback", id, id, iter, TRUE, "")
      [] OTHER ->
            Event("feedback", MemberById(id).provider, id, iter, TRUE, "")

ErrorEvent(collector, id) ==
    CASE collector = "collect_feedback" -> Event("error", "", id, 0, FALSE, "member_failed")
      [] OTHER -> Event("error", MemberById(id).provider, id, 0, FALSE, "member_failed")

\* ------------------------------------------------------------ actions
Mut_TopLevelExcept(message) ==
    /\ status' = status
    /\ events' = Append(events, Event("error", "", "", 0, FALSE, message))
    /\ pc' = "done"

\* except Exception as e: session.status = "failed"; commit; yield error
TopLevelExcept(message) ==
    /\ status' = "failed"
    /\ events' = Append(events, Event("error", "", "", 0, FALSE, message))
    /\ pc' = "done"

\* for member in members: provider = self.provider_factory.get_provider(member.provider)
ResolutionRaises(members) ==
    \E i \in 1..Len(members) : GetProviderRaises(members[i].provider)

Mut_DispatchCalls(members, iter, prev, prompt) ==
    SeqMap(LAMBDA m : Call("council", m.id, iter, <<>>, prev, prompt), members \o members)

\* tasks.append(...) for every member handed to the collector
DispatchCalls(members, iter, prev, prompt) ==
    SeqMap(LAMBDA m : Call("council", m.id, iter, <<>>, prev, prompt), members)

Mut_SessionIteration(iter) == iter

\* session.current_iteration: the loops keep the iteration in a local variable
\* and never assign the attribute
SessionIteration(iter) == session_current_iteration

\* run_session up to the first yield
RunStart ==
    /\ mode = "run"
    /\ pc = "start"
    /\ events' = Append(events, StatusEvent)
    /\ iteration' = 1
    /\ phase_responses' = <<>>
    /\ pc' = "initial_dispatch"
    /\ session_current_iteration' = SessionIteration(iteration')
    /\ UNCHANGED <<request_vars, provider_vars, session_id, db_sessions, completion_log,
                   status, inflight, completed, chair_inflight,
                   merged_response, responses, call_log, fail_log>>

Mut_CouncilTargets == non_chair_members

\* for member in self.council_members: the forward collectors call every member
CouncilTargets == council_members

\* _collect_initial_responses up to as_completed
CollectInitialDispatch ==
    /\ pc = "initial_dispatch"
    /\ IF ResolutionRaises(council_members)
       THEN /\ TopLevelExcept("ValueError")
            /\ UNCHANGED <<inflight, call_log>>
       ELSE /\ inflight' = MemberIdsOf(CouncilTargets)
            /\ call_log' = call_log \o DispatchCalls(CouncilTargets, 1, 0, <<SessionPrompt>>)
            /\ pc' = "collect_initial"
            /\ UNCHANGED <<status, events>>
    /\ UNCHANGED <<config_vars, completion_log, iteration, completed, chair_inflight,
                   phase_responses, merged_response, responses, fail_log>>

\* get_response_with_name / get_feedback_with_member: one member call ends
ProviderCallEnds(id, stream) ==
    /\ id \in inflight
    /\ inflight' = inflight \ {id}
    /\ LET result == get_provider_response(stream) IN
        /\ completed' = Append(completed,
               [member |-> id, ok |-> result.ok, content |-> result.content])
        /\ fail_log' = IF result.ok THEN fail_log
                       ELSE fail_log \cup
                            {[role |-> "council", member |-> id, iteration |-> iteration]}
    /\ completion_log' = Append(completion_log,
           [role |-> "council", member |-> id, iteration |-> iteration, stream |-> stream])
    /\ UNCHANGED <<config_vars, status, pc, iteration, chair_inflight, phase_responses,
                   merged_response, responses, events, call_log>>

\* a call whose stream yields one fragment and then ends (ok) or raises
ProviderCallReturns(id, ok) == ProviderCallEnds(id, Stream(1, ~ok))

Mut_PhaseResponsesAfter(list, r) == Append(list, r.member)

Mut_PhaseResponsesReset(list, r) == IF r.ok THEN Append(list, r.member) ELSE <<>>

\* if update.get("done"): initial_responses.append(update)
PhaseResponsesAfter(list, r) == IF r.ok THEN Append(list, r.member) ELSE list

Mut_NextCompletedIndex(q) == Len(q)

\* asyncio.as_completed hands out the results earliest-finished first
NextCompletedIndex(q) == 1

\* body of "for coro in asyncio.as_completed(tasks)": results in completion order
ConsumeCompleted ==
    /\ pc \in Collectors
    /\ completed # <<>>
    /\ LET n == NextCompletedIndex(completed)
           r == completed[n] IN
        /\ completed' = SubSeq(completed, 1, n - 1) \o SubSeq(completed, n + 1, Len(completed))
        /\ IF r.ok
           THEN /\ responses' = Append(responses, Row(pc, r.member, iteration, r.content))
                /\ events' = Append(events, DoneEvent(pc, r.member, iteration))
           ELSE /\ events' = Append(events, ErrorEvent(pc, r.member))
                /\ UNCHANGED responses
        /\ phase_responses' = PhaseResponsesAfter(phase_responses, r)
    /\ UNCHANGED <<config_vars, completion_log, status, pc, iteration, inflight, chair_inflight,
                   merged_response, call_log, fail_log>>

Mut_AllTasksConsumed == completed = <<>>

Mut_TasksNeverConsumed == FALSE

\* the as_completed loop ends when every task has been awaited
AllTasksConsumed == inflight = {} /\ completed = <<>>

Mut_ZeroSuccessAborts(initial_responses) == FALSE

Mut_AnyFailureAborts(initial_responses) == Len(initial_responses) < Len(council_members)

\* if not initial_responses: ... return
ZeroSuccessAborts(initial_responses) == initial_responses = <<>>

Mut_AfterZeroSuccess == "merge"

\* return: the generator ends after the zero-success error
AfterZeroSuccess == "done"

\* run_session after the initial collection
AfterInitialCollection ==
    /\ pc = "collect_initial"
    /\ AllTasksConsumed
    /\ IF ZeroSuccessAborts(phase_responses)
       THEN /\ events' = Append(events, Event("error", "", "", 0, FALSE, "no_providers"))
            /\ status' = "failed"
            /\ pc' = AfterZeroSuccess
       ELSE /\ events' = Append(events, StatusEvent)
            /\ pc' = "merge"
            /\ UNCHANGED status
    /\ UNCHANGED <<config_vars, completion_log, iteration, inflight, completed, chair_inflight,
                   phase_responses, merged_response, responses, call_log, fail_log>>

\* previous_merge argument of _create_merge: none in iteration 1
PreviousMergeArg(iter) == IF iter = 1 THEN 0 ELSE merged_response

\* _create_merge up to the chair's provider call
CreateMergeDispatch ==
    /\ pc = "merge"
    /\ IF GetProviderRaises(ChairProvider)
       THEN /\ TopLevelExcept("ValueError")
            /\ UNCHANGED <<chair_inflight, call_log>>
       ELSE /\ chair_inflight' = TRUE
            /\ call_log' = Append(call_log,
                   Call("chair", ChairMember.id, iteration, phase_responses,
                        PreviousMergeArg(iteration),
                        MergePrompt(phase_responses, iteration, PreviousMergeArg(iteration))))
            /\ pc' = "merging"
            /\ UNCHANGED <<status, events>>
    /\ UNCHANGED <<config_vars, completion_log, iteration, inflight, completed, phase_responses,
                   merged_response, responses, fail_log>>

\* if update.get("done"): merged_response = update
MergedAfter(ok, iter) == IF ok THEN iter ELSE merged_response

\* _create_merge from the end of the chair's call, and the caller's loop body
ChairCallEnds(stream) ==
    /\ pc = "merging"
    /\ chair_inflight
    /\ chair_inflight' = FALSE
    /\ LET result == get_provider_response(stream) IN
        /\ IF result.ok
           THEN /\ responses' = Append(responses,
                       ResponseRow("chair", ChairProvider, ChairMember.id, iteration,
                                   result.content))
                /\ events' = Append(events,
                       Event("merge", ChairProvider, ChairMember.id, iteration, TRUE, ""))
                /\ UNCHANGED fail_log
           ELSE /\ events' = Append(events, Event("error", "", "", 0, FALSE, "chair_failed"))
                /\ fail_log' = fail_log \cup
                       {[role |-> "chair", member |-> ChairMember.id, iteration |-> iteration]}
                /\ UNCHANGED responses
        /\ merged_response' = MergedAfter(result.ok, iteration)
    /\ completion_log' = Append(completion_log,
           [role |-> "chair", member |-> ChairMember.id, iteration |-> iteration,
            stream |-> stream])
    /\ pc' = "after_merge"
    /\ UNCHANGED <<config_vars, status, iteration, inflight, completed, phase_responses, call_log>>

\* a chair call whose stream yields one fragment and then ends (ok) or raises
ChairCallReturns(ok) == ChairCallEnds(Stream(1, ~ok))

Mut_LoopHasNext(iter) == iter <= total_iterations

Mut_LoopEndsEarly(iter) == iter + 2 <= total_iterations

\* for iteration in range(..., session.total_iterations + 1)
LoopHasNext(iter) == iter + 1 <= total_iterations

\* top of the iteration loop
NextIteration ==
    /\ pc = "after_merge"
    /\ LoopHasNext(iteration)
    /\ iteration' = iteration + 1
    /\ events' = Append(events, StatusEvent)
    /\ phase_responses' = <<>>
    /\ pc' = "feedback_dispatch"
    /\ session_current_iteration' = SessionIteration(iteration')
    /\ UNCHANGED <<request_vars, provider_vars, session_id, db_sessions, completion_log,
                   status, inflight, completed, chair_inflight,
                   merged_response, responses, call_log, fail_log>>

\* merged_response['content'] with merged_response = None
FeedbackPromptRaises == merged_response = 0

\* _collect_feedback up to as_completed
CollectFeedbackDispatch ==
    /\ pc = "feedback_dispatch"
    /\ IF GetProviderRaises(council_members[1].provider)
       THEN /\ TopLevelExcept("ValueError")
            /\ UNCHANGED <<inflight, call_log>>
       ELSE IF FeedbackPromptRaises
       THEN /\ TopLevelExcept("TypeError")
            /\ UNCHANGED <<inflight, call_log>>
       ELSE IF ResolutionRaises(council_members)
       THEN /\ TopLevelExcept("ValueError")
            /\ UNCHANGED <<inflight, call_log>>
       ELSE /\ inflight' = MemberIdsOf(CouncilTargets)
            /\ call_log' = call_log \o DispatchCalls(CouncilTargets, iteration, merged_response,
                                                 FeedbackPrompt(merged_response))
            /\ pc' = "collect_feedback"
            /\ UNCHANGED <<status, events>>
    /\ UNCHANGED <<config_vars, completion_log, iteration, completed, chair_inflight,
                   phase_responses, merged_response, responses, fail_log>>

Mut_AfterFeedbackCollection ==
    /\ pc = "collect_feedback"
    /\ AllTasksConsumed
    /\ IF ZeroSuccessAborts(phase_responses)
       THEN /\ events' = Append(events, Event("error", "", "", 0, FALSE, "no_providers"))
            /\ status' = "failed"
            /\ pc' = AfterZeroSuccess
       ELSE /\ events' = Append(events, StatusEvent)
            /\ pc' = "merge"
            /\ UNCHANGED status
    /\ UNCHANGED <<config_vars, completion_log, iteration, inflight, completed, chair_inflight,
                   phase_responses, merged_response, responses, call_log, fail_log>>

\* run_session / run_session_with_resume after a feedback collection
AfterFeedbackCollection ==
    /\ pc = "collect_feedback"
    /\ AllTasksConsumed
    /\ events' = Append(events, StatusEvent)
    /\ pc' = "merge"
    /\ UNCHANGED <<config_vars, completion_log, status, iteration, inflight, completed, chair_inflight,
                   phase_responses, merged_response, responses, call_log, fail_log>>

\* session.status = "completed"; commit; yield complete
Complete ==
    /\ pc = "after_merge"
    /\ ~LoopHasNext(iteration)
    /\ status' = "completed"
    /\ events' = Append(events, Event("complete", "", "", 0, FALSE, "session_id"))
    /\ pc' = "done"
    /\ UNCHANGED <<config_vars, completion_log, iteration, inflight, completed, chair_inflight,
                   phase_responses, merged_response, responses, call_log, fail_log>>

\* run_session_with_resume up to the first yield, and the resume-state analysis
ResumeStart ==
    /\ mode = "resume"
    /\ pc = "start"
    /\ events' = Append(events, StatusEvent)
    /\ iteration' = current_iteration
    /\ merged_response' = ExistingMerged
    /\ phase_responses' = SeqMap(LAMBDA r : r.member_id, current_iter_responses)
    /\ pc' = IF missing_members # <<>> THEN "resume_dispatch" ELSE "resume_merge_check"
    /\ session_current_iteration' = SessionIteration(iteration')
    /\ UNCHANGED <<request_vars, provider_vars, session_id, db_sessions, completion_log,
                   status, inflight, completed, chair_inflight,
                   responses, call_log, fail_log>>

\* if not members or not previous_output: return
FeedbackFromMembersSkips(members, previous_output) == members = <<>> \/ previous_output = 0

\* _collect_responses_from_members / _collect_feedback_from_members up to as_completed
ResumeDispatch ==
    /\ pc = "resume_dispatch"
    /\ LET members == SelectSeq(council_members, LAMBDA m : m.id \in Range(missing_members))
           target == IF current_iteration = 1 THEN "collect_resume_initial"
                     ELSE "collect_resume_feedback"
       IN IF current_iteration # 1 /\ FeedbackFromMembersSkips(members, merged_response)
          THEN /\ events' = Append(events, StatusEvent)
               /\ pc' = target
               /\ UNCHANGED <<status, inflight, call_log>>
          ELSE IF ResolutionRaises(members)
          THEN /\ status' = "failed"
               /\ events' = events \o <<StatusEvent, Event("error", "", "", 0, FALSE, "ValueError")>>
               /\ pc' = "done"
               /\ UNCHANGED <<inflight, call_log>>
          ELSE /\ events' = Append(events, StatusEvent)
               /\ inflight' = Range(missing_members)
               /\ call_log' = call_log \o
                      (IF current_iteration = 1
                       THEN DispatchCalls(members, 1, 0, <<SessionPrompt>>)
                       ELSE DispatchCalls(members, current_iteration, merged_response,
                                FeedbackPromptFromMembers(merged_response, current_iteration)))
               /\ pc' = target
               /\ UNCHANGED status
    /\ UNCHANGED <<config_vars, completion_log, iteration, completed, chair_inflight,
                   phase_responses, merged_response, responses, fail_log>>

\* run_session_with_resume after the collection of current_iteration
AfterResumeCollection ==
    /\ pc \in {"collect_resume_initial", "collect_resume_feedback"}
    /\ AllTasksConsumed
    /\ pc' = "resume_merge_check"
    /\ UNCHANGED <<config_vars, completion_log, status, iteration, inflight, completed, chair_inflight,
                   phase_responses, merged_response, responses, events, call_log, fail_log>>

Mut_MergeNeeded == TRUE

\* if not current_iter_merged: ... _create_merge(...)
MergeNeeded == current_iter_merged = <<>>

ResumeMergeCheck ==
    /\ pc = "resume_merge_check"
    /\ IF MergeNeeded
       THEN /\ events' = Append(events, StatusEvent)
            /\ pc' = "merge"
       ELSE /\ pc' = "after_merge"
            /\ UNCHANGED events
    /\ UNCHANGED <<config_vars, completion_log, status, iteration, inflight, completed, chair_inflight,
                   phase_responses, merged_response, responses, call_log, fail_log>>

Next ==
    \/ RunStart
    \/ CollectInitialDispatch
    \/ \E id \in inflight, ok \in BOOLEAN : ProviderCallReturns(id, ok)
    \/ ConsumeCompleted
    \/ AfterInitialCollection
    \/ CreateMergeDispatch
    \/ \E ok \in BOOLEAN : ChairCallReturns(ok)
    \/ NextIteration
    \/ CollectFeedbackDispatch
    \/ AfterFeedbackCollection
    \/ Complete
    \/ ResumeStart
    \/ ResumeDispatch
    \/ AfterResumeCollection
    \/ ResumeMergeCheck

Spec == Init /\ [][Next]_vars

\* ------------------------------- scenario: one member's provider always fails
\* two members on different providers, one of them the chair, both providers
\* configured; a forward run of ScenarioBIterations iterations
RostersScenarioB ==
    {r \in Rosters : Len(r) = 2 /\ r[1].provider # r[2].provider}

InitScenarioB ==
    /\ council_members \in RostersScenarioB
    /\ total_iterations = ScenarioBIterations
    /\ openai_api_key = TRUE
    /\ mode = "run"
    /\ resume_state = NoResumeState
    /\ config = SessionCreate(council_members, total_iterations)
    /\ status = "running"
    /\ pc = "start"
    /\ iteration = 0
    /\ inflight = {}
    /\ completed = <<>>
    /\ chair_inflight = FALSE
    /\ phase_responses = <<>>
    /\ merged_response = 0
    /\ responses = <<>>
    /\ events = <<>>
    /\ call_log = <<>>
    /\ fail_log = {}
    /\ completion_log = <<>>
    /\ InitProviders
    /\ InitSession

\* the provider of the non-chair member raises on every call, the chair's never
CallSucceeds(id) == MemberById(id).provider = ChairProvider

NextScenarioB ==
    \/ RunStart
    \/ CollectInitialDispatch
    \/ \E id \in inflight : ProviderCallReturns(id, CallSucceeds(id))
    \/ ConsumeCompleted
    \/ AfterInitialCollection
    \/ CreateMergeDispatch
    \/ ChairCallReturns(TRUE)
    \/ NextIteration
    \/ CollectFeedbackDispatch
    \/ AfterFeedbackCollection
    \/ Complete

SpecScenarioB == InitScenarioB /\ [][NextScenarioB]_vars

\* --------------------- scenario: resume with one member's response missing
\* a roster of ScenarioDMembers members, interrupted in ScenarioDIteration with
\* every member but one already holding a response for that iteration and the
\* merge of the iteration before in the state
ResumeStatesScenarioD(roster, n) ==
    {rs \in ResumeStates(roster, n) :
        /\ rs.current_iteration = ScenarioDIteration
        /\ \E m \in Range(rs.merged_responses) : m.iteration = ScenarioDIteration - 1
        /\ Cardinality({r \in Range(rs.responses) : r.iteration = ScenarioDIteration})
              = Len(roster) - 1}

InitScenarioD ==
    /\ council_members \in RostersOfSize(ScenarioDMembers)
    /\ total_iterations \in {ScenarioDIteration, ScenarioDIteration + 1}
    /\ openai_api_key = TRUE
    /\ mode = "resume"
    /\ resume_state \in ResumeStatesScenarioD(council_members, total_iterations)
    /\ config = SessionCreate(council_members, total_iterations)
    /\ status = "running"
    /\ pc = "start"
    /\ iteration = 0
    /\ inflight = {}
    /\ completed = <<>>
    /\ chair_inflight = FALSE
    /\ phase_responses = <<>>
    /\ merged_response = 0
    /\ responses = <<>>
    /\ events = <<>>
    /\ call_log = <<>>
    /\ fail_log = {}
    /\ completion_log = <<>>
    /\ InitProviders
    /\ InitSession

NextScenarioD ==
    \/ ResumeStart
    \/ ResumeDispatch
    \/ \E id \in inflight, ok \in BOOLEAN : ProviderCallReturns(id, ok)
    \/ ConsumeCompleted
    \/ AfterResumeCollection
    \/ ResumeMergeCheck
    \/ CreateMergeDispatch
    \/ \E ok \in BOOLEAN : ChairCallReturns(ok)
    \/ NextIteration
    \/ CollectFeedbackDispatch
    \/ AfterFeedbackCollection
    \/ Complete

SpecScenarioD == InitScenarioD /\ [][NextScenarioD]_vars

\* ------------------------------------------- forward runs of three iterations
InitLongRun ==
    /\ council_members \in Rosters
    /\ total_iterations = LongRunIterations
    /\ Len(council_members) * total_iterations <= MaxCouncilCalls
    /\ openai_api_key = TRUE
    /\ mode = "run"
    /\ resume_state = NoResumeState
    /\ config = SessionCreate(council_members, total_iterations)
    /\ status = "running"
    /\ pc = "start"
    /\ iteration = 0
    /\ inflight = {}
    /\ completed = <<>>
    /\ chair_inflight = FALSE
    /\ phase_responses = <<>>
    /\ merged_response = 0
    /\ responses = <<>>
    /\ events = <<>>
    /\ call_log = <<>>
    /\ fail_log = {}
    /\ completion_log = <<>>
    /\ InitProviders
    /\ InitSession

\* the steps of run_session
NextRun ==
    \/ RunStart
    \/ CollectInitialDispatch
    \/ \E id \in inflight, ok \in BOOLEAN : ProviderCallReturns(id, ok)
    \/ ConsumeCompleted
    \/ AfterInitialCollection
    \/ CreateMergeDispatch
    \/ \E ok \in BOOLEAN : ChairCallReturns(ok)
    \/ NextIteration
    \/ CollectFeedbackDispatch
    \/ AfterFeedbackCollection
    \/ Complete

SpecLongRun == InitLongRun /\ [][NextRun]_vars

\* ------------------------------------------ forward runs of every length
InitOrder ==
    /\ council_members \in Rosters
    /\ total_iterations \in 1..LongRunIterations
    /\ Len(council_members) * total_iterations <= MaxCouncilCalls
    /\ openai_api_key = TRUE
    /\ mode = "run"
    /\ resume_state = NoResumeState
    /\ config = SessionCreate(council_members, total_iterations)
    /\ status = "running"
    /\ pc = "start"
    /\ iteration = 0
    /\ inflight = {}
    /\ completed = <<>>
    /\ chair_inflight = FALSE
    /\ phase_responses = <<>>
    /\ merged_response = 0
    /\ responses = <<>>
    /\ events = <<>>
    /\ call_log = <<>>
    /\ fail_log = {}
    /\ completion_log = <<>>
    /\ InitProviders
    /\ InitSession

SpecOrder == InitOrder /\ [][NextRun]_vars

\* ------------------------------------------- runs with arbitrary streams
\* rosters and iteration counts of at most MaxStreamCalls council calls
InitStream ==
    /\ council_members \in Rosters
    /\ total_iterations \in 1..MaxIterations
    /\ Len(council_members) * total_iterations <= MaxStreamCalls
    /\ openai_api_key = TRUE
    /\ mode \in {"run", "resume"}
    /\ resume_state \in (IF mode = "run" THEN {NoResumeState}
                         ELSE ResumeStatesAtPhaseStart(council_members, total_iterations))
    /\ config = SessionCreate(council_members, total_iterations)
    /\ status = "running"
    /\ pc = "start"
    /\ iteration = 0
    /\ inflight = {}
    /\ completed = <<>>
    /\ chair_inflight = FALSE
    /\ phase_responses = <<>>
    /\ merged_response = 0
    /\ responses = <<>>
    /\ events = <<>>
    /\ call_log = <<>>
    /\ fail_log = {}
    /\ completion_log = <<>>
    /\ InitProviders
    /\ InitSession

\* every step of both entry points; a provider call ends after any stream
NextStream ==
    \/ RunStart
    \/ CollectInitialDispatch
    \/ \E id \in inflight, stream \in Streams : ProviderCallEnds(id, stream)
    \/ ConsumeCompleted
    \/ AfterInitialCollection
    \/ CreateMergeDispatch
    \/ \E stream \in Streams : ChairCallEnds(stream)
    \/ NextIteration
    \/ CollectFeedbackDispatch
    \/ AfterFeedbackCollection
    \/ Complete
    \/ ResumeStart
    \/ ResumeDispatch
    \/ AfterResumeCollection
    \/ ResumeMergeCheck

SpecStream == InitStream /\ [][NextStream]_vars

\* ------------------------------------------------ runs on healthy providers
\* every step of both entry points, with every provider call returning its
\* content
NextHealthy ==
    \/ RunStart
    \/ CollectInitialDispatch
    \/ \E id \in inflight : ProviderCallReturns(id, TRUE)
    \/ ConsumeCompleted
    \/ AfterInitialCollection
    \/ CreateMergeDispatch
    \/ ChairCallReturns(TRUE)
    \/ NextIteration
    \/ CollectFeedbackDispatch
    \/ AfterFeedbackCollection
    \/ Complete
    \/ ResumeStart
    \/ ResumeDispatch
    \/ AfterResumeCollection
    \/ ResumeMergeCheck

\* ------------------------------------------- runs with member personalities
\* archetype ids a request may name: two known ones and an unknown one
RequestedArchetypes == {"balanced", "critic", "no_such_archetype"}

\* custom_personality texts: none, blank, plain, padded, with an inner blank
CustomPersonalities ==
    {<<>>,
     <<Char(" ")>>,
     <<Char("x")>>,
     <<Char(" "), Char("x"), Char("\n")>>,
     <<Char("x"), Char(" "), Char("y")>>}

\* rosters in which one member names an archetype and a custom personality
RostersPersonality ==
    UNION { { [r EXCEPT ![i].archetype = a, ![i].custom_personality = c]
              : i \in 1..Len(r), a \in RequestedArchetypes, c \in CustomPersonalities }
            : r \in Rosters }

InitPersonality ==
    /\ council_members \in RostersPersonality
    /\ total_iterations \in 1..MaxIterations
    /\ Len(council_members) * total_iterations <= MaxCouncilCalls
    /\ openai_api_key = TRUE
    /\ mode \in {"run", "resume"}
    /\ resume_state \in (IF mode = "run" THEN {NoResumeState}
                         ELSE ResumeStatesAtPhaseStart(council_members, total_iterations))
    /\ config = SessionCreate(council_members, total_iterations)
    /\ status = "running"
    /\ pc = "start"
    /\ iteration = 0
    /\ inflight = {}
    /\ completed = <<>>
    /\ chair_inflight = FALSE
    /\ phase_responses = <<>>
    /\ merged_response = 0
    /\ responses = <<>>
    /\ events = <<>>
    /\ call_log = <<>>
    /\ fail_log = {}
    /\ completion_log = <<>>
    /\ InitProviders
    /\ InitSession

SpecPersonality == InitPersonality /\ [][NextHealthy]_vars

\* --------------------------------------------------- runs with attachments
FileAttachment(extracted_text, base64_data) ==
    [extracted_text |-> extracted_text, base64_data |-> base64_data]

\* attachment lists: none, text only, one image, text before two images, two
\* images, an image before text
AttachmentLists ==
    {<<>>,
     <<FileAttachment(TRUE, "")>>,
     <<FileAttachment(FALSE, "img1")>>,
     <<FileAttachment(TRUE, ""), FileAttachment(FALSE, "img1"), FileAttachment(FALSE, "img2")>>,
     <<FileAttachment(FALSE, "img2"), FileAttachment(FALSE, "img1")>>,
     <<FileAttachment(TRUE, "img1"), FileAttachment(TRUE, "")>>}

\* rosters in which one member runs a model of ModelNames
RostersVision ==
    UNION { { [r EXCEPT ![i].model = model] : i \in 1..Len(r), model \in ModelNames }
            : r \in Rosters }

InitVision ==
    /\ council_members \in RostersVision
    /\ total_iterations \in 1..MaxIterations
    /\ Len(council_members) * total_iterations <= MaxCouncilCalls
    /\ openai_api_key = TRUE
    /\ mode \in {"run", "resume"}
    /\ resume_state \in (IF mode = "run" THEN {NoResumeState}
                         ELSE ResumeStatesAtPhaseStart(council_members, total_iterations))
    /\ config \in {[SessionCreate(council_members, total_iterations) EXCEPT !.files = files]
                    : files \in AttachmentLists}
    /\ status = "running"
    /\ pc = "start"
    /\ iteration = 0
    /\ inflight = {}
    /\ completed = <<>>
    /\ chair_inflight = FALSE
    /\ phase_responses = <<>>
    /\ merged_response = 0
    /\ responses = <<>>
    /\ events = <<>>
    /\ call_log = <<>>
    /\ fail_log = {}
    /\ completion_log = <<>>
    /\ InitProviders
    /\ InitSession

SpecVision == InitVision /\ [][NextHealthy]_vars

\* ----------------------------------- member calls on shared provider instances
ModelRead(id, kind, model) ==
    [member |-> id, iteration |-> iteration, kind |-> kind, model |-> model]

Mut_RestoredModel(saved, current) == current

\* finally: if original_model is not None: provider.model = original_model
RestoredModel(saved, current) == saved

\* a member call from its start to the first await inside stream_completion:
\* original_model = provider.model; provider.model = model; the vision check
\* when an image is held; the request is built with self.model
TaskBegins(id) ==
    /\ pc \in Collectors
    /\ id \in inflight
    /\ original_model[id] = ""
    /\ LET member == MemberById(id) IN
        /\ original_model' = [original_model EXCEPT ![id] = provider_model[member.provider]]
        /\ provider_model' = [provider_model EXCEPT ![member.provider] = member.model]
        /\ model_log' = model_log
               \o (IF image_data # "" THEN <<ModelRead(id, "vision", member.model)>> ELSE <<>>)
               \o <<ModelRead(id, "dispatch", member.model)>>
    /\ UNCHANGED <<request_vars, session_vars, run_vars>>

\* the same call from the end of its stream: estimate_cost reads self.model
\* through get_pricing when the stream ended normally, then the finally block
TaskEnds(id, ok) ==
    /\ id \in inflight
    /\ original_model[id] # ""
    /\ inflight' = inflight \ {id}
    /\ LET member == MemberById(id)
           result == get_provider_response(Stream(1, ~ok)) IN
        /\ completed' = Append(completed,
               [member |-> id, ok |-> result.ok, content |-> result.content])
        /\ fail_log' = IF result.ok THEN fail_log
                       ELSE fail_log \cup
                            {[role |-> "council", member |-> id, iteration |-> iteration]}
        /\ provider_model' = [provider_model EXCEPT ![member.provider] =
                                  RestoredModel(original_model[id], provider_model[member.provider])]
        /\ model_log' = model_log
               \o (IF result.ok
                   THEN <<ModelRead(id, "cost", provider_model[member.provider])>> ELSE <<>>)
               \o <<ModelRead(id, "end", provider_model'[member.provider])>>
    /\ original_model' = [original_model EXCEPT ![id] = ""]
    /\ completion_log' = Append(completion_log,
           [role |-> "council", member |-> id, iteration |-> iteration,
            stream |-> Stream(1, ~ok)])
    /\ UNCHANGED <<request_vars, session_vars, status, pc, iteration, chair_inflight,
                   phase_responses, merged_response, responses, events, call_log>>

\* rosters in which every member names one of two models
RostersOverride ==
    UNION { { [i \in 1..Len(r) |-> [r[i] EXCEPT !.model = models[i]]]
              : models \in [1..Len(r) -> {"llama3", "llava"}] }
            : r \in Rosters }

InitOverride ==
    /\ council_members \in RostersOverride
    /\ total_iterations \in 1..MaxIterations
    /\ Len(council_members) * total_iterations <= MaxStreamCalls
    /\ openai_api_key = TRUE
    /\ mode = "run"
    /\ resume_state = NoResumeState
    /\ config = [SessionCreate(council_members, total_iterations)
                   EXCEPT !.files = <<FileAttachment(FALSE, "img1")>>]
    /\ status = "running"
    /\ pc = "start"
    /\ iteration = 0
    /\ inflight = {}
    /\ completed = <<>>
    /\ chair_inflight = FALSE
    /\ phase_responses = <<>>
    /\ merged_response = 0
    /\ responses = <<>>
    /\ events = <<>>
    /\ call_log = <<>>
    /\ fail_log = {}
    /\ completion_log = <<>>
    /\ InitProviders
    /\ InitSession

\* the steps of run_session, each member call in its two steps
NextOverride ==
    \/ RunStart
    \/ CollectInitialDispatch
    \/ \E id \in inflight : TaskBegins(id)
    \/ \E id \in inflight, ok \in BOOLEAN : TaskEnds(id, ok)
    \/ ConsumeCompleted
    \/ AfterInitialCollection
    \/ CreateMergeDispatch
    \/ \E ok \in BOOLEAN : ChairCallReturns(ok)
    \/ NextIteration
    \/ CollectFeedbackDispatch
    \/ AfterFeedbackCollection
    \/ Complete

SpecOverride == InitOverride /\ [][NextOverride]_vars

\* ------------------------------------------------- validation of a request
MAX_PROMPT_LENGTH == 50000
MIN_PROMPT_LENGTH == 1
MAX_ITERATIONS == 10
MIN_ITERATIONS == 1
MAX_COUNCIL_MEMBERS == 10
MIN_COUNCIL_MEMBERS == 1

\* the Field constraints of SessionCreate
FieldsValid(request) ==
    /\ request.prompt_length >= MIN_PROMPT_LENGTH
    /\ request.prompt_length <= MAX_PROMPT_LENGTH
    /\ Len(request.council_members) >= MIN_COUNCIL_MEMBERS
    /\ Len(request.council_members) <= MAX_COUNCIL_MEMBERS
    /\ request.iterations >= MIN_ITERATIONS
    /\ request.iterations <= MAX_ITERATIONS
    /\ request.system_prompt_length <= MAX_PROMPT_LENGTH

chair_count(request) ==
    Cardinality({i \in 1..Len(request.council_members) : request.council_members[i].is_chair})

Mut_validate_chair_member(request) ==
    request.council_members # <<>> => chair_count(request) # 0

\* the model validator, run after the fields validated
validate_chair_member(request) ==
    request.council_members # <<>> =>
        /\ ~(chair_count(request) = 0)
        /\ ~(chair_count(request) > 1)

\* a list of n members of which those at the positions in chairs are chairs
RequestMembers(n, chairs) ==
    [i \in 1..n |-> CouncilMember(MemberIdPool[i], "ollama", "llama3", "balanced", <<>>, i \in chairs)]

\* requests at and around every limit, with zero, one and two chairs
Requests ==
    { [prompt_length |-> pl, council_members |-> RequestMembers(n, chairs), iterations |-> it,
       template |-> "balanced", system_prompt_length |-> sl, files |-> <<>>]
      : pl \in {MIN_PROMPT_LENGTH - 1, MIN_PROMPT_LENGTH, MAX_PROMPT_LENGTH, MAX_PROMPT_LENGTH + 1},
        n \in {MIN_COUNCIL_MEMBERS - 1, MIN_COUNCIL_MEMBERS, MIN_COUNCIL_MEMBERS + 1,
               MAX_COUNCIL_MEMBERS, MAX_COUNCIL_MEMBERS + 1},
        chairs \in {{}, {1}, {2}, {1, 2}},
        it \in {MIN_ITERATIONS - 1, MIN_ITERATIONS, MAX_ITERATIONS, MAX_ITERATIONS + 1},
        sl \in {0, MAX_PROMPT_LENGTH, MAX_PROMPT_LENGTH + 1} }

\* a request has arrived at one of the two routes; no Session exists
InitValidation ==
    /\ config \in Requests
    /\ mode \in {"run", "resume"}
    /\ council_members = <<>>
    /\ total_iterations = 0
    /\ openai_api_key = TRUE
    /\ resume_state = NoResumeState
    /\ status = "none"
    /\ pc = "request"
    /\ iteration = 0
    /\ inflight = {}
    /\ completed = <<>>
    /\ chair_inflight = FALSE
    /\ phase_responses = <<>>
    /\ merged_response = 0
    /\ responses = <<>>
    /\ events = <<>>
    /\ call_log = <<>>
    /\ fail_log = {}
    /\ completion_log = <<>>
    /\ InitProviders
    /\ session_id = ""
    /\ session_current_iteration = 0
    /\ db_sessions = IF mode = "resume" THEN {InterruptedSession("running")} ELSE {}

\* the request body is validated into a SessionCreate; the route then calls
\* create_session, which stores the roster and adds the Session
PostSession ==
    /\ pc = "request"
    /\ IF FieldsValid(config) /\ validate_chair_member(config)
       THEN /\ council_members' = config.council_members
            /\ total_iterations' = config.iterations
            /\ provider_model' = model_configs(config.council_members)
            /\ session_id' = NewSessionId
            /\ status' = "running"
            /\ pc' = "start"
       ELSE /\ pc' = "rejected"
            /\ UNCHANGED <<council_members, total_iterations, provider_model, session_id, status>>
    /\ UNCHANGED <<config, openai_api_key, mode, resume_state, iteration, inflight, completed,
                   chair_inflight, phase_responses, merged_response, responses, events, call_log,
                   fail_log, completion_log, original_model, model_log,
                   session_current_iteration, db_sessions>>

SpecValidation == InitValidation /\ [][PostSession]_vars

\* ------------------------------------------------ runs with a merge template
InitTemplate ==
    /\ council_members \in Rosters
    /\ total_iterations \in 1..MaxIterations
    /\ Len(council_members) * total_iterations <= MaxCouncilCalls
    /\ openai_api_key = TRUE
    /\ mode \in {"run", "resume"}
    /\ resume_state \in (IF mode = "run" THEN {NoResumeState}
                         ELSE ResumeStatesAtPhaseStart(council_members, total_iterations))
    /\ config \in {[SessionCreate(council_members, total_iterations) EXCEPT !.template = t]
                    : t \in MERGE_TEMPLATES \cup {"no_such_template"}}
    /\ status = "running"
    /\ pc = "start"
    /\ iteration = 0
    /\ inflight = {}
    /\ completed = <<>>
    /\ chair_inflight = FALSE
    /\ phase_responses = <<>>
    /\ merged_response = 0
    /\ responses = <<>>
    /\ events = <<>>
    /\ call_log = <<>>
    /\ fail_log = {}
    /\ completion_log = <<>>
    /\ InitProviders
    /\ InitSession

SpecTemplate == InitTemplate /\ [][NextHealthy]_vars

\* ------------------------------------------- runs driven to their end
\* both entry points on every resume state of rosters and iteration counts of
\* at most MaxStreamCalls council calls
InitTermination ==
    /\ council_members \in Rosters
    /\ total_iterations \in 1..MaxIterations
    /\ Len(council_members) * total_iterations <= MaxStreamCalls
    /\ openai_api_key \in BOOLEAN
    /\ mode \in {"run", "resume"}
    /\ resume_state \in (IF mode = "run" THEN {NoResumeState}
                         ELSE ResumeStates(council_members, total_iterations))
    /\ config = SessionCreate(council_members, total_iterations)
    /\ status = "running"
    /\ pc = "start"
    /\ iteration = 0
    /\ inflight = {}
    /\ completed = <<>>
    /\ chair_inflight = FALSE
    /\ phase_responses = <<>>
    /\ merged_response = 0
    /\ responses = <<>>
    /\ events = <<>>
    /\ call_log = <<>>
    /\ fail_log = {}
    /\ completion_log = <<>>
    /\ InitProviders
    /\ InitSession

\* The event loop runs a step whenever one is ready: every dispatched provider
\* call returns or fails, every commit returns and the consumer of the
\* generator asks for the next event.
SpecTermination == InitTermination /\ [][Next]_vars /\ WF_vars(Next)

\* ------------------------------------- runs with a global system prompt
\* config.system_prompt, when the request supplies one
GlobalSystemPrompt == <<Part("config.system_prompt", "", "", 0)>>

InitSystemPrompt ==
    /\ council_members \in Rosters
    /\ total_iterations \in 1..MaxIterations
    /\ Len(council_members) * total_iterations <= MaxCouncilCalls
    /\ openai_api_key = TRUE
    /\ mode \in {"run", "resume"}
    /\ resume_state \in (IF mode = "run" THEN {NoResumeState}
                         ELSE ResumeStatesAtPhaseStart(council_members, total_iterations))
    /\ config \in {[SessionCreate(council_members, total_iterations)
                        EXCEPT !.system_prompt_length = sl] : sl \in {0, 1}}
    /\ status = "running"
    /\ pc = "start"
    /\ iteration = 0
    /\ inflight = {}
    /\ completed = <<>>
    /\ chair_inflight = FALSE
    /\ phase_responses = <<>>
    /\ merged_response = 0
    /\ responses = <<>>
    /\ events = <<>>
    /\ call_log = <<>>
    /\ fail_log = {}
    /\ completion_log = <<>>
    /\ InitProviders
    /\ InitSession

SpecSystemPrompt == InitSystemPrompt /\ [][NextHealthy]_vars

\* ============================================================ properties
AllMemberIds == MemberIdsOf(council_members)

CouncilCallsOf(k) ==
    {i \in 1..Len(call_log) : call_log[i].role = "council" /\ call_log[i].iteration = k}

ChairCallsOf(k) ==
    {i \in 1..Len(call_log) : call_log[i].role = "chair" /\ call_log[i].iteration = k}

CouncilRowsOf(k) ==
    {i \in 1..Len(responses) : responses[i].role = "council" /\ responses[i].iteration = k}

ChairRowsOf(k) ==
    {i \in 1..Len(responses) : responses[i].role = "chair" /\ responses[i].iteration = k}

EventsWhere(P(_)) == {i \in 1..Len(events) : P(events[i])}

IsTerminalError(e) == e.type = "error" /\ e.member_id = "" /\ e.provider = ""

IsMemberError(e, id) == e.type = "error" /\ e.member_id = id

FailedIn(id, k) == [role |-> "council", member |-> id, iteration |-> k] \in fail_log

ChairFailedIn(k) == \E f \in fail_log : f.role = "chair" /\ f.iteration = k

\* the result of member id's call of iteration k has been taken by the collector
ConsumedIn(id, k) ==
    /\ id \notin inflight \/ iteration > k
    /\ \A j \in 1..Len(completed) : completed[j].member # id \/ iteration > k

\* the collection/feedback phase of iteration k issued its calls and reached its barrier
CollectionOver(k) ==
    /\ CouncilCallsOf(k) # {}
    /\ iteration > k \/ (iteration = k /\ pc \notin Collectors)

\* the run is at or past the chair's merge call of iteration k
MergePointPassed(k) ==
    iteration > k \/ (iteration = k /\ pc \in {"merging", "after_merge", "done"})

\* C1: in run_session a failed chair merge call of iteration k makes the final
\* status failed, no phase of a later iteration starts and no complete event
\* is emitted.
C1_ChairFailureIsTerminal ==
    mode = "run" =>
        \A k \in 1..total_iterations : ChairFailedIn(k) =>
            /\ iteration <= k
            /\ \A i \in 1..Len(call_log) : call_log[i].iteration <= k
            /\ EventsWhere(LAMBDA e : e.type = "complete") = {}
            /\ (pc = "done" => status = "failed")

\* C2: in run_session a member whose call failed in iteration k (in iteration
\* 1: while another member succeeded) gets one member-scoped error event per
\* failure, no Response row for that iteration, is absent from the input of
\* the merge of k, and the run goes on to the chair merge of k.
C2_MemberFailureIsScoped ==
    mode = "run" =>
        /\ \A id \in AllMemberIds :
              Cardinality(EventsWhere(LAMBDA e : IsMemberError(e, id)))
                  = Cardinality({k \in 1..total_iterations : FailedIn(id, k) /\ ConsumedIn(id, k)})
        /\ \A id \in AllMemberIds, k \in 1..total_iterations :
              (FailedIn(id, k) /\ (k = 1 => \E o \in AllMemberIds : ~FailedIn(o, 1))) =>
                  /\ \A i \in CouncilRowsOf(k) : responses[i].member # id
                  /\ \A i \in ChairCallsOf(k) : id \notin Range(call_log[i].inputs)
                  /\ (ConsumedIn(id, k) /\ pc \in {"merge", "merging"} /\ iteration = k)
                        => status = "running"
                  /\ (ConsumedIn(id, k) /\ MergePointPassed(k)) => ChairCallsOf(k) # {}

C2_Witness ==
    /\ mode = "run"
    /\ \E id \in AllMemberIds : FailedIn(id, 2) /\ ChairCallsOf(2) # {}
    /\ \E id \in AllMemberIds : FailedIn(id, 1) /\ ChairCallsOf(1) # {}

\* C3: in run_session, when every member's call of the initial collection
\* failed, no chair call is ever issued, no other phase is entered, and the
\* run ends with status failed and the terminal error as its last event.
C3_ZeroSuccessAborts ==
    (mode = "run" /\ \A id \in AllMemberIds : FailedIn(id, 1)) =>
        /\ \A i \in 1..Len(call_log) : call_log[i].role # "chair"
        /\ pc \in {"collect_initial", "done"}
        /\ iteration = 1
        /\ pc = "done" =>
              /\ status = "failed"
              /\ IsTerminalError(Last(events))
              /\ Cardinality(EventsWhere(IsTerminalError)) = 1
        /\ pc # "done" => status = "running"

C3_Witness ==
    /\ mode = "run"
    /\ Len(council_members) >= 2
    /\ \A id \in AllMemberIds : FailedIn(id, 1)
    /\ pc = "done"
    /\ status = "failed"

\* C4: a run_session run that ends completed has persisted exactly one chair
\* Response for each iteration 1..N, N in all.
C4_CompletedHasEveryMerge ==
    (mode = "run" /\ status = "completed") =>
        /\ \A k \in 1..total_iterations : Cardinality(ChairRowsOf(k)) = 1
        /\ Cardinality({i \in 1..Len(responses) : responses[i].role = "chair"}) = total_iterations

\* C5: in run_session, for every iteration k whose collection ran, the council
\* Responses of k number at most M, fewer than M exactly when a member failed
\* in round k, and M (the chair member's included) when none failed.
C5_CouncilRowsPerIteration ==
    mode = "run" =>
        \A k \in 1..total_iterations : CollectionOver(k) =>
            LET n == Cardinality(CouncilRowsOf(k))
                M == Len(council_members)
                someFailed == \E id \in AllMemberIds : FailedIn(id, k)
            IN /\ n <= M
               /\ (n < M) <=> someFailed
               /\ ~someFailed =>
                     \A id \in AllMemberIds :
                         Cardinality({i \in CouncilRowsOf(k) : responses[i].member = id}) = 1

C5_Witness ==
    /\ mode = "run"
    /\ Len(council_members) = 2
    /\ status = "completed"
    /\ Cardinality(CouncilRowsOf(1)) = 2
    /\ Cardinality(CouncilRowsOf(2)) = 1
    /\ Cardinality(ChairRowsOf(1)) = 1

\* C6: run_session_with_resume issues no collection call of current_iteration
\* to a member whose response for current_iteration is in the resume state;
\* when every member has one, it issues none at all and goes straight to the
\* merge check.
C6_ResumeSkipsResponded ==
    mode = "resume" =>
        /\ \A i \in CouncilCallsOf(current_iteration) :
              call_log[i].member \notin responded_member_ids
        /\ AllMemberIds \subseteq responded_member_ids =>
              /\ CouncilCallsOf(current_iteration) = {}
              /\ pc \notin {"resume_dispatch", "collect_resume_initial", "collect_resume_feedback"}

C6_Witness ==
    /\ mode = "resume"
    /\ responded_member_ids # {}
    /\ CouncilCallsOf(current_iteration) # {}
    /\ pc = "merging"
    /\ iteration = current_iteration

\* C7: in run_session_with_resume the members called for current_iteration's
\* collection are exactly the non-chair members without a response for
\* current_iteration in the resume state, each called exactly once.
C7_ResumeCallsExactlyMissing ==
    (mode = "resume" /\ pc \notin {"start", "resume_dispatch"}) =>
        /\ {call_log[i].member : i \in CouncilCallsOf(current_iteration)} = Range(missing_members)
        /\ Cardinality(CouncilCallsOf(current_iteration)) = Len(missing_members)

\* C8: the chair's merge call of iteration k is issued only when every member
\* call of k's collection has ended and been processed, no member call is
\* issued while a merge call runs, and the calls of a run are issued in
\* iteration order with the merge call of k after the member calls of k.
C8_PhaseBarrier ==
    /\ chair_inflight => (inflight = {} /\ completed = <<>>)
    /\ pc \in {"merge", "merging", "after_merge"} => (inflight = {} /\ completed = <<>>)
    /\ (inflight # {} \/ completed # <<>>) => pc \in Collectors
    /\ \A i, j \in 1..Len(call_log) : i < j =>
          /\ call_log[i].iteration <= call_log[j].iteration
          /\ (call_log[i].role = "chair" /\ call_log[j].role = "council")
                => call_log[i].iteration < call_log[j].iteration

C8_Witness ==
    /\ chair_inflight
    /\ iteration = 2
    /\ Cardinality(CouncilCallsOf(2)) = 2
    /\ \E id \in AllMemberIds : FailedIn(id, 2)
    /\ ChairCallsOf(1) # {}

C10_StatusTransitions ==
    /\ status = "running"
    /\ [][/\ status' \in {"running", "completed", "failed"}
          /\ status' # status => status = "running"
          /\ status \in {"completed", "failed"} => (status' = status /\ responses' = responses)]_vars

C10_Witness ==
    /\ pc = "done"
    /\ status = "failed"
    /\ responses # <<>>

\* ---------------------------------------------------------------- C11
\* position in call_log of the chair call of iteration k
ChairCallIndex(k) == CHOOSE i \in ChairCallsOf(k) : TRUE

\* C11: run_session sets status completed and emits complete only once, for
\* every iteration 1..N in order, the member calls of the collection/feedback
\* phase and then the chair's merge call have been issued and have ended; the
\* complete event carries the session id, is the last event and comes with
\* the status already completed.
C11_CompleteAfterAllIterations ==
    (mode = "run" /\ (status = "completed" \/ EventsWhere(LAMBDA e : e.type = "complete") # {})) =>
        /\ status = "completed"
        /\ pc = "done"
        /\ Last(events) = Event("complete", "", "", 0, FALSE, "session_id")
        /\ Cardinality(EventsWhere(LAMBDA e : e.type = "complete")) = 1
        /\ inflight = {} /\ completed = <<>> /\ ~chair_inflight
        /\ \A k \in 1..total_iterations :
              /\ CouncilCallsOf(k) # {}
              /\ Cardinality(ChairCallsOf(k)) = 1
              /\ \A i \in CouncilCallsOf(k) : i < ChairCallIndex(k)
              /\ k > 1 => \A i \in CouncilCallsOf(k) : ChairCallIndex(k - 1) < i

C11_Witness ==
    /\ mode = "run"
    /\ status = "completed"
    /\ total_iterations = 2
    /\ Len(council_members) = 2

\* ---------------------------------------------------------------- C12
\* C12: when an exception escapes a phase (a provider that cannot be resolved
\* while the calls are built, or the feedback prompt built without a merge),
\* the run ends with status failed and the error event carrying the
\* exception's message as its last event.
C12_EscapedExceptionFails ==
    LET raisedEvents == EventsWhere(LAMBDA e : e.type = "error"
                                       /\ e.message \in {"ValueError", "TypeError"})
        EndsWith(msg) == /\ pc = "done"
                         /\ status = "failed"
                         /\ Last(events) = Event("error", "", "", 0, FALSE, msg)
    IN /\ raisedEvents # {} =>
             /\ raisedEvents = {Len(events)}
             /\ pc = "done"
             /\ status = "failed"
       /\ (mode = "run" /\ ResolutionRaises(council_members)
              /\ pc \notin {"start", "initial_dispatch"}) => EndsWith("ValueError")
       /\ (mode = "run" /\ ChairFailedIn(1) /\ total_iterations >= 2
              /\ pc \notin {"after_merge", "feedback_dispatch"}) => EndsWith("TypeError")
       /\ (mode = "resume" /\ GetProviderRaises(ChairProvider) /\ MergeNeeded
              /\ pc = "done") => EndsWith("ValueError")

C12_Witness ==
    /\ mode = "run"
    /\ ChairFailedIn(1)
    /\ pc = "done"
    /\ Last(events).message = "TypeError"

\* ---------------------------------------------------------------- C13
\* C13: a finished run has emitted exactly one terminal event, as its last
\* event: a failed run one error event not scoped to a member and no
\* complete, a completed run one complete and no such error event.
C13_OneTerminalEvent ==
    pc = "done" =>
        LET nTerminalErrors == Cardinality(EventsWhere(IsTerminalError))
            nComplete == Cardinality(EventsWhere(LAMBDA e : e.type = "complete"))
        IN /\ status = "failed" =>
                 (nTerminalErrors = 1 /\ nComplete = 0 /\ IsTerminalError(Last(events)))
           /\ status = "completed" =>
                 (nComplete = 1 /\ nTerminalErrors = 0 /\ Last(events).type = "complete")

\* ---------------------------------------------------------------- C14
\* C14: a resumed run at current_iteration = 1 whose resume state holds no
\* council and no merged response and whose re-dispatched members all fail
\* ends failed and persists no chair Response.
C14_ResumeZeroSuccessFails ==
    (/\ mode = "resume"
     /\ current_iteration = 1
     /\ current_iter_responses = <<>>
     /\ resume_state.merged_responses = <<>>
     /\ missing_members # <<>>
     /\ \A id \in Range(missing_members) : FailedIn(id, 1)) =>
        /\ \A i \in 1..Len(responses) : responses[i].role # "chair"
        /\ pc = "done" => status = "failed"

\* ---------------------------------------------------------------- C15
UnresolvableNonChair ==
    {m.id : m \in {x \in Range(council_members) : ~x.is_chair /\ GetProviderRaises(x.provider)}}

\* C15: in run_session a non-chair member whose provider cannot be resolved
\* is a failure of that member only: it gets an error event, the members
\* whose providers resolve are still called, and the session does not fail
\* for it.
C15_UnresolvedProviderIsScoped ==
    (/\ mode = "run"
     /\ UnresolvableNonChair # {}
     /\ ~GetProviderRaises(ChairProvider)
     /\ pc \notin {"start", "initial_dispatch"}) =>
        /\ \A id \in UnresolvableNonChair : EventsWhere(LAMBDA e : IsMemberError(e, id)) # {}
        /\ \A id \in AllMemberIds \ UnresolvableNonChair :
              \E i \in CouncilCallsOf(1) : call_log[i].member = id
        /\ EventsWhere(LAMBDA e : e.type = "error" /\ e.message = "ValueError") = {}

\* ---------------------------------------------------------------- C16
\* C16: no provider call is repeated: the call log of a run holds at most one
\* call per member and iteration and at most one chair call per iteration, so
\* a failed call is never issued again.
C16_NoRetry ==
    \A i, j \in 1..Len(call_log) :
        (/\ call_log[i].role = call_log[j].role
         /\ call_log[i].member = call_log[j].member
         /\ call_log[i].iteration = call_log[j].iteration) => i = j

C16_Witness ==
    /\ pc = "done"
    /\ status = "completed"
    /\ total_iterations = 2
    /\ \E id \in AllMemberIds : FailedIn(id, 1) /\ \E i \in CouncilCallsOf(2) : call_log[i].member = id
    /\ ChairFailedIn(2)

\* ---------------------------------------------------------------- C17
\* the collection of iteration k is addressed to member id
PhaseAppliesTo(id, k) ==
    IF mode = "run" THEN TRUE
    ELSE (k = current_iteration /\ id \in Range(missing_members)) \/ k > current_iteration

MemberEvents(id) ==
    EventsWhere(LAMBDA e : e.member_id = id /\ e.type \in {"initial_response", "feedback", "error"})

\* C17: when the merge call of iteration k is issued, every member the
\* collection of k is addressed to has yielded exactly one event for each
\* collection addressed to it so far: a done response event or an error event
\* carrying its id.
C17_NoSilentDrop ==
    \A k \in 1..total_iterations, id \in AllMemberIds :
        (ChairCallsOf(k) # {} /\ PhaseAppliesTo(id, k)) =>
            LET due == {j \in 1..k : PhaseAppliesTo(id, j)}
            IN /\ Cardinality(MemberEvents(id)) >= Cardinality(due)
               /\ Cardinality(MemberEvents(id))
                    <= Cardinality({i \in 1..Len(call_log) :
                           call_log[i].role = "council" /\ call_log[i].member = id})

\* ---------------------------------------------------------------- C18
IsMemberEvent(e) == e.member_id # "" /\ e.type \in {"initial_response", "feedback", "error"}

\* members in the order their events were emitted
EventOrder == SeqMap(LAMBDA e : e.member_id, SelectSeq(events, IsMemberEvent))

\* members in the order their calls completed
CompletionOrder ==
    SeqMap(LAMBDA c : c.member, SelectSeq(completion_log, LAMBDA c : c.role = "council"))

\* members in the order their council Responses were persisted
PersistOrder ==
    SeqMap(LAMBDA r : <<r.member, r.iteration>>, SelectSeq(responses, LAMBDA r : r.role = "council"))

SuccessOrder ==
    SeqMap(LAMBDA c : <<c.member, c.iteration>>,
           SelectSeq(completion_log,
                     LAMBDA c : c.role = "council" /\ ~FailedIn(c.member, c.iteration)))

IsPrefix(s, t) == Len(s) <= Len(t) /\ s = SubSeq(t, 1, Len(s))

\* C18: council response and error events are emitted, and council Responses
\* persisted, in the order in which the member calls completed, whatever the
\* roster order: the emitted and the persisted sequences are prefixes of the
\* completion sequence.
C18_CompletionOrder ==
    /\ IsPrefix(EventOrder, CompletionOrder)
    /\ IsPrefix(PersistOrder, SuccessOrder)

\* both relative orders of the two members occur in one run
C18_Witness ==
    /\ mode = "run"
    /\ pc = "done"
    /\ Len(council_members) = 2
    /\ Len(EventOrder) = 4
    /\ EventOrder[1] = council_members[2].id
    /\ EventOrder[2] = council_members[1].id
    /\ EventOrder[3] = council_members[1].id
    /\ EventOrder[4] = council_members[2].id
    /\ Len(PersistOrder) = 4

\* ---------------------------------------------------------------- C19
\* the merge step of iteration k has returned and the loop has moved past it
IterationCompleted(k) ==
    \/ iteration = k /\ pc = "after_merge"
    \/ iteration >= k /\ status = "completed"

\* C19: once iteration k is completed, the persisted Responses hold for
\* every earlier iteration j exactly one chair Response and exactly one
\* council Response for each member that did not fail in j.
C19_EarlierIterationsPersisted ==
    \A k \in 1..total_iterations :
        IterationCompleted(k) =>
            \A j \in 1..(k - 1) :
                /\ Cardinality(ChairRowsOf(j)) = 1
                /\ \A id \in AllMemberIds :
                      ~FailedIn(id, j) =>
                          Cardinality({i \in CouncilRowsOf(j) : responses[i].member = id}) = 1

\* ---------------------------------------------------------------- C20
FailingMember == CHOOSE id \in AllMemberIds : ~CallSucceeds(id)

MergeEventOf(k) ==
    CHOOSE i \in EventsWhere(LAMBDA e : e.type = "merge" /\ e.iteration = k) : TRUE

\* C20: with two members, one the chair, and the other member's provider
\* failing on every call, a forward run of N = ScenarioBIterations iterations
\* ends completed with exactly one council Response and one chair Response in
\* each iteration (N and N in all) and exactly N error events scoped to the
\* failing member, one before the merge of each iteration.
C20_ScenarioB ==
    pc = "done" =>
        /\ status = "completed"
        /\ Cardinality({i \in 1..Len(responses) : responses[i].role = "council"}) = total_iterations
        /\ Cardinality({i \in 1..Len(responses) : responses[i].role = "chair"}) = total_iterations
        /\ \A k \in 1..total_iterations :
              /\ Cardinality(CouncilRowsOf(k)) = 1
              /\ \A i \in CouncilRowsOf(k) : responses[i].member = ChairMember.id
              /\ Cardinality(ChairRowsOf(k)) = 1
              /\ Cardinality(EventsWhere(LAMBDA e : e.type = "merge" /\ e.iteration = k)) = 1
              /\ Cardinality({i \in EventsWhere(LAMBDA e : IsMemberError(e, FailingMember)) :
                     /\ i < MergeEventOf(k)
                     /\ k > 1 => MergeEventOf(k - 1) < i}) = 1
        /\ Cardinality(EventsWhere(LAMBDA e : e.type = "error")) = total_iterations

C20_Witness ==
    /\ pc = "done"
    /\ total_iterations = ScenarioBIterations
    /\ Len(council_members) = 2
    /\ \A k \in 1..total_iterations : FailedIn(FailingMember, k) /\ ~ChairFailedIn(k)
    /\ Len(call_log) = 3 * total_iterations

\* ---------------------------------------------------------------- C21
\* the members of the roster without a response for current_iteration
WithoutResponse == AllMemberIds \ responded_member_ids

\* C21: resumed in iteration c with every member of the roster but one
\* holding a response for c, the run issues exactly one council call for c,
\* to the member without a response, and issues the chair's merge call for c
\* only after it.
C21_OneCallThenMerge ==
    (mode = "resume" /\ Cardinality(WithoutResponse) = 1 /\ ChairCallsOf(current_iteration) # {}) =>
        /\ Cardinality(CouncilCallsOf(current_iteration)) = 1
        /\ \A i \in CouncilCallsOf(current_iteration) :
              /\ call_log[i].member \in WithoutResponse
              /\ \A j \in ChairCallsOf(current_iteration) : i < j

\* ---------------------------------------------------------------- C22
\* the archetype's prompt, then the guidance line and the stripped custom
\* personality when that is not blank
ComposedPersonality(m) ==
    LET guidance == Strip(m.custom_personality)
    IN <<ArchetypeSystemPrompt(m.archetype)>>
       \o (IF guidance = <<>> THEN <<>>
           ELSE <<Text("\n\nAdditional personality guidance: ")>> \o guidance)

\* C22: on every call to a member with a known archetype, the chair's merge
\* calls included, the system prompt is the archetype's system prompt,
\* followed by the guidance line and the stripped custom personality exactly
\* when the custom personality is not blank; the archetype prompt always
\* comes first.
C22_PersonalityComposition ==
    \A i \in 1..Len(call_log) :
        LET m == MemberById(call_log[i].member)
        IN m.archetype \in PERSONALITY_ARCHETYPES =>
              /\ call_log[i].system_prompt = ComposedPersonality(m)
              /\ Head(call_log[i].system_prompt) = ArchetypeSystemPrompt(m.archetype)
              /\ (Len(call_log[i].system_prompt) > 1) = (Strip(m.custom_personality) # <<>>)

C22_Witness ==
    /\ pc = "done"
    /\ \E i, j \in 1..Len(call_log) :
          /\ call_log[i].role = "chair"
          /\ call_log[j].role = "council"
          /\ call_log[i].member = call_log[j].member
          /\ MemberById(call_log[i].member).archetype = "critic"
          /\ MemberById(call_log[i].member).custom_personality
                = <<Char(" "), Char("x"), Char("\n")>>
          /\ call_log[i].system_prompt
                = <<ArchetypeSystemPrompt("critic"),
                    Text("\n\nAdditional personality guidance: "), Char("x")>>
    /\ \E k \in 1..Len(call_log) : Len(call_log[k].system_prompt) = 1

\* ---------------------------------------------------------------- C23
\* positions of the attachments that carry image data
ImagePositions == {i \in 1..Len(config.files) : config.files[i].base64_data # ""}

\* C23: a provider call carries an image exactly when some attachment holds
\* image data and the called member's provider supports vision for its model;
\* the image is the first attachment's that holds one, never a later one.
C23_FirstImageToVisionOnly ==
    \A i \in 1..Len(call_log) :
        LET m == MemberById(call_log[i].member)
        IN /\ (call_log[i].image_data # "")
                 = (ImagePositions # {} /\ supports_vision(m.provider, m.model))
           /\ call_log[i].image_data # "" =>
                 \E p \in ImagePositions :
                    /\ call_log[i].image_data = config.files[p].base64_data
                    /\ \A q \in ImagePositions : p <= q

C23_Witness ==
    /\ pc = "done"
    /\ Cardinality(ImagePositions) = 2
    /\ config.files[1].base64_data = ""
    /\ \E i, j \in 1..Len(call_log) :
          /\ call_log[i].image_data = "img1"
          /\ call_log[j].image_data = ""

\* ---------------------------------------------------------------- C24
\* the number of members of the request marked as chair
RequestChairs == {i \in 1..Len(config.council_members) : config.council_members[i].is_chair}

WithinLimits ==
    /\ config.prompt_length \in 1..50000
    /\ Len(config.council_members) \in 1..10
    /\ config.iterations \in 1..10
    /\ Cardinality(RequestChairs) = 1

\* C24: a Session exists only for a request with a prompt of 1..50000
\* characters, 1..10 council members, 1..10 iterations and exactly one chair;
\* a request outside these limits ends rejected, with no Session and no
\* roster taken from it.
C24_ValidationGate ==
    /\ status # "none" => WithinLimits
    /\ (~WithinLimits /\ pc # "request") =>
          /\ pc = "rejected"
          /\ status = "none"
          /\ council_members = <<>>

C24_Witness ==
    /\ pc = "rejected"
    /\ status = "none"
    /\ Cardinality(RequestChairs) = 2
    /\ config.prompt_length = 50000
    /\ Len(config.council_members) = 10
    /\ config.iterations = 10
    /\ config.system_prompt_length = 0

\* ---------------------------------------------------------------- C25
\* the merges whose content a prompt quotes
MergesQuoted(prompt) ==
    {k \in 0..total_iterations : \E j \in 1..Len(prompt) : prompt[j] = MergeContent(k)}

\* C25: in a forward run, every feedback prompt of an iteration k >= 2
\* contains the original prompt and the content of the merge of iteration
\* k - 1, and of no other merge.
C25_FeedbackOnLatestMerge ==
    \A i \in 1..Len(call_log) :
        (mode = "run" /\ call_log[i].role = "council" /\ call_log[i].iteration >= 2) =>
            /\ \E j \in 1..Len(call_log[i].prompt) : call_log[i].prompt[j] = SessionPrompt
            /\ MergesQuoted(call_log[i].prompt) = {call_log[i].iteration - 1}

\* ---------------------------------------------------------------- C26
\* the response contents a prompt quotes, in order
ResponsesQuoted(prompt) == SelectSeq(prompt, LAMBDA part : part.kind = "response.content")

\* C26: in a forward run, the chair's merge prompt of iteration k quotes
\* exactly the responses persisted in iteration k's phase, each once, none
\* of another iteration or of a failed member, and for k >= 2 the merge of
\* iteration k - 1.
C26_MergePromptInputs ==
    \A i \in 1..Len(call_log) :
        (mode = "run" /\ call_log[i].role = "chair") =>
            LET k == call_log[i].iteration
                quoted == ResponsesQuoted(call_log[i].prompt)
            IN /\ Range(quoted) = {ResponseContent(responses[j].member, k) : j \in CouncilRowsOf(k)}
               /\ Len(quoted) = Cardinality(CouncilRowsOf(k))
               /\ \A part \in Range(quoted) : ~FailedIn(part.member, k)
               /\ k >= 2 => MergesQuoted(call_log[i].prompt) = {k - 1}

\* ---------------------------------------------------------------- C27
\* the resume state holds a merge for current_iteration
MergeInState ==
    \E j \in 1..Len(resume_state.merged_responses) :
        resume_state.merged_responses[j].iteration = current_iteration

C28_ResumePromptAsForward ==
    \A i \in 1..Len(call_log) :
        (/\ mode = "resume"
         /\ call_log[i].role = "council"
         /\ call_log[i].iteration = current_iteration) =>
            call_log[i].prompt
               = FullPrompt(IF current_iteration = 1 THEN <<SessionPrompt>>
                            ELSE FeedbackPrompt(call_log[i].prev))

\* ---------------------------------------------------------------- C29
\* C29: every merge prompt sent to the chair contains the instructions of
\* the session's merge template.
C29_MergePromptFromTemplate ==
    \A i \in 1..Len(call_log) :
        call_log[i].role = "chair" =>
            \E j \in 1..Len(call_log[i].prompt) :
                call_log[i].prompt[j] = MergeTemplateText(config.template)

\* ---------------------------------------------------------------- C30
\* all fragments of a stream, joined in order
RECURSIVE Joined(_)
Joined(fragments) ==
    IF fragments = <<>> THEN <<>>
    ELSE fragments[1] \o Joined(SubSeq(fragments, 2, Len(fragments)))

\* the ended calls of a Response's role, member and iteration
EndedCallsOf(row) ==
    {j \in 1..Len(completion_log) :
        /\ completion_log[j].role = row.role
        /\ completion_log[j].member = row.member
        /\ completion_log[j].iteration = row.iteration}

\* C30: every persisted Response belongs to a call whose stream has ended
\* without raising, and its content is all fragments of that stream joined
\* in order; a call whose stream raised, with or without fragments before,
\* leaves no Response and is recorded as failed.
C30_NoPartialPersistence ==
    /\ \A i \in 1..Len(responses) :
          /\ EndedCallsOf(responses[i]) # {}
          /\ \A j \in EndedCallsOf(responses[i]) :
                /\ ~completion_log[j].stream.raises
                /\ responses[i].content = Joined(completion_log[j].stream.fragments)
    /\ \A j \in 1..Len(completion_log) :
          completion_log[j].stream.raises =>
              /\ \A i \in 1..Len(responses) : j \notin EndedCallsOf(responses[i])
              /\ [role |-> completion_log[j].role, member |-> completion_log[j].member,
                  iteration |-> completion_log[j].iteration] \in fail_log

C30_Witness ==
    /\ pc = "done"
    /\ \E j \in 1..Len(completion_log) :
          /\ completion_log[j].stream.raises
          /\ Len(completion_log[j].stream.fragments) = MaxFragments
          /\ completion_log[j].role = "council"
    /\ \E i \in 1..Len(responses) :
          /\ responses[i].role = "council"
          /\ Len(responses[i].content) = 3
    /\ \E i \in 1..Len(responses) : responses[i].role = "chair"

\* ---------------------------------------------------------------- C31
\* no call on provider name is dispatched and not yet ended
ProviderIdle(name) ==
    /\ ~chair_inflight
    /\ \A id \in inflight : MemberById(id).provider # name

\* the members that share the instance of provider name
SharingMembers(name) == {m \in Range(council_members) : m.provider = name}

\* in one phase a call to a second member of provider name began between
\* the begin and the end of a member's call
OverlappingOverride(name) ==
    \E i, j, k \in 1..Len(model_log) :
        /\ i < j /\ j < k
        /\ model_log[i].kind = "dispatch"
        /\ model_log[k].kind = "end"
        /\ model_log[k].member = model_log[i].member
        /\ model_log[k].iteration = model_log[i].iteration
        /\ model_log[j].kind = "dispatch"
        /\ model_log[j].member # model_log[i].member
        /\ MemberById(model_log[i].member).provider = name
        /\ MemberById(model_log[j].member).provider = name

\* C31: whenever no member call is running on a provider instance, its
\* model is the one it was constructed with, unless members with different
\* models share the instance and the calls to two of its members overlapped;
\* such an overlap can leave another model behind (C31_Witness).
C31_RestoredUnlessOverlap ==
    \A name \in ProviderNames :
        (ProviderIdle(name) /\ provider_model[name] # model_configs(council_members)[name]) =>
            /\ \E m1, m2 \in SharingMembers(name) : m1.model # m2.model
            /\ OverlappingOverride(name)

C31_Witness ==
    /\ pc = "done"
    /\ status = "completed"
    /\ \E name \in ProviderNames :
          /\ ProviderIdle(name)
          /\ provider_model[name] # model_configs(council_members)[name]
          /\ Cardinality(SharingMembers(name)) = 2
          /\ OverlappingOverride(name)

\* ---------------------------------------------------------------- C32
\* C32: when the request supplies a global system prompt, every provider
\* call of the session is made with it as its system prompt.
C32_GlobalPromptOverrides ==
    config.system_prompt_length > 0 =>
        \A i \in 1..Len(call_log) : call_log[i].system_prompt = GlobalSystemPrompt

\* ---------------------------------------------------------------- C34
\* every council call of iteration k was issued by run_session and failed
AllFailedIn(k) ==
    /\ mode = "run"
    /\ CollectionOver(k)
    /\ \A id \in AllMemberIds : FailedIn(id, k)

\* C34: when every council call of a feedback round k >= 2 of run_session
\* has failed, the run goes on to the chair's merge of iteration k, whose
\* call is dispatched with no council feedback, and the session is not
\* failed by the empty round; the all-failed abort belongs to iteration 1.
C34_EmptyFeedbackStillMerges ==
    /\ \A k \in 2..total_iterations :
          AllFailedIn(k) =>
              /\ (iteration = k /\ pc = "merge") \/ MergePointPassed(k)
              /\ MergePointPassed(k) =>
                    /\ Cardinality(ChairCallsOf(k)) = 1
                    /\ \A i \in ChairCallsOf(k) : call_log[i].inputs = <<>>
              /\ (iteration = k /\ ~ChairFailedIn(k)) => status # "failed"
              /\ (iteration = k /\ pc = "done" /\ ~ChairFailedIn(k)) => status = "completed"
    /\ AllFailedIn(1) => pc = "done" /\ status = "failed" /\ ChairCallsOf(1) = {}

C34_Witness ==
    /\ pc = "done"
    /\ status = "completed"
    /\ total_iterations >= 2
    /\ AllFailedIn(total_iterations)
    /\ Len(council_members) >= 2

CalledIn(k) == {call_log[i].member : i \in CouncilCallsOf(k)}

\* C36: run_session_with_resume on the resume state of a run that has not
\* begun (current_iteration 1, no responses, no merges) calls, like
\* run_session, every council member in iteration 1 before the merge.
C36_EmptyResumeAsForward ==
    (/\ resume_state = NoResumeState
     /\ MergePointPassed(1)
     /\ ChairCallsOf(1) # {}) =>
        CalledIn(1) = AllMemberIds

\* ---------------------------------------------------------------- C37
DoneCouncilEvents ==
    SelectSeq(events, LAMBDA e : e.done /\ e.type \in {"initial_response", "feedback"})

\* responded_member_ids of a resume state whose responses are the given
\* events and whose current_iteration is k
RespondedFromEvents(evs, k) ==
    {evs[i].member_id : i \in {j \in 1..Len(evs) : evs[j].iteration = k /\ evs[j].member_id # ""}}

\* C37: every done council event carries a member_id and an iteration, and
\* a resume state built from the done events emitted so far names, for
\* each iteration, exactly the members whose response was persisted.
C37_DoneEventsCarryIteration ==
    /\ \A i \in 1..Len(DoneCouncilEvents) :
          /\ DoneCouncilEvents[i].member_id # ""
          /\ DoneCouncilEvents[i].iteration >= 1
    /\ \A k \in 1..MaxIterations :
          RespondedFromEvents(DoneCouncilEvents, k) = {responses[i].member : i \in CouncilRowsOf(k)}

\* ---------------------------------------------------------------- C38
\* the last event of the run is its complete event or a top-level error
TerminalEventEmitted ==
    /\ events # <<>>
    /\ Last(events).type = "complete" \/ IsTerminalError(Last(events))

\* C38: every run of either entry point, driven to its end, reaches the end
\* of its generator with a terminal event emitted and the session completed
\* or failed.
C38_RunTerminates ==
    <>(pc = "done" /\ status \in {"completed", "failed"} /\ TerminalEventEmitted)

C38_Witness ==
    /\ pc = "done"
    /\ status \in {"completed", "failed"}
    /\ TerminalEventEmitted
    /\ mode = "resume"
    /\ fail_log # {}

\* ---------------------------------------------------------------- C39
\* the Session row and the Response rows that the database holds under id:
\* the rows of this run are stored under session.id
DbStatus(id) ==
    IF id = session_id THEN status
    ELSE (CHOOSE s \in db_sessions : s.id = id).status

DbResponses(id) ==
    IF id = session_id
    THEN [i \in 1..Len(responses) |->
             [member |-> responses[i].member, iteration |-> responses[i].iteration]]
    ELSE (CHOOSE s \in db_sessions : s.id = id).responses

SucceededIn(k) == {id \in AllMemberIds : ~FailedIn(id, k)}

CallContent == get_provider_response(Stream(1, FALSE)).content

ExpectedCouncilRows(k) ==
    {Row(IF k = 1 THEN "collect_initial" ELSE "collect_feedback", id, k, CallContent)
       : id \in SucceededIn(k)}

ExpectedChairRows(k) ==
    IF ChairFailedIn(k) THEN {}
    ELSE {ResponseRow("chair", ChairProvider, ChairMember.id, k, CallContent)}

\* the final status and the persisted rows of run_session as functions of the
\* configuration and the call outcomes alone
ExpectedOutcome ==
    IF SucceededIn(1) = {}
    THEN [status |-> "failed", rows |-> {}]
    ELSE IF ChairFailedIn(1)
    THEN [status |-> IF total_iterations = 1 THEN "completed" ELSE "failed",
          rows |-> ExpectedCouncilRows(1)]
    ELSE [status |-> "completed",
          rows |-> UNION {ExpectedCouncilRows(k) \cup ExpectedChairRows(k)
                            : k \in 1..total_iterations}]

\* C40: at the end of a forward run the status and the set of persisted
\* Responses are determined by the configuration and the outcomes of the
\* calls; the order in which the concurrent calls completed has no part in
\* them.
C40_OutcomeIndependentOfOrder ==
    pc = "done" =>
        /\ status = ExpectedOutcome.status
        /\ Range(responses) = ExpectedOutcome.rows
        /\ Len(responses) = Cardinality(ExpectedOutcome.rows)

\* a run in which the calls of one phase completed against the roster order
\* and one of them failed
C40_Witness ==
    /\ pc = "done"
    /\ status = "completed"
    /\ Len(council_members) = 2
    /\ total_iterations = 2
    /\ fail_log # {}
    /\ \E i, j \in 1..Len(completion_log) :
          /\ i < j
          /\ completion_log[i].role = "council" /\ completion_log[j].role = "council"
          /\ completion_log[i].iteration = completion_log[j].iteration
          /\ completion_log[i].member = council_members[2].id
          /\ completion_log[j].member = council_members[1].id

====
